---------------------------- MODULE Spec2Model ----------------------------
(***************************************************************************)
(* GDriveProvider (src/cloudsync_gdrive.py): the path/id cache, the        *)
(* change-feed generator events(), and the transport wrapper _api.         *)
(*                                                                         *)
(* Paths are sequences of names (<<>> is the root path "/").  Change-feed  *)
(* tokens are the positive integers; 0 stands for Python's None.           *)
(***************************************************************************)
EXTENDS Integers, Sequences, FiniteSets, TLC

VARIABLES
    changelog,    \* remote: the change feed, a sequence of raw change records
    ids,          \* self._ids: ordered dict path -> oid, as a sequence of <<path, oid>>
    trashed_ids,  \* self._trashed_ids, same representation
    cursor,       \* self.__cursor
    gen,          \* the frame of the live events() generator
    client,       \* self._client is set (connected)
    mutex,        \* self._mutex: the thread holding it, or NoThread
    thr,          \* per thread: where it is in _api, what it asked, what it got
    files,        \* remote: the file record of every object id
    root_id,      \* self.__root_id
    since,        \* the feed position from which events() has delivered every record
    delivered     \* per feed position: how often the generator has yielded its record

vars == <<changelog, ids, trashed_ids, cursor, gen, client, mutex, thr,
          files, root_id, since, delivered>>

apiVars == <<client, mutex, thr, files, root_id, since>>

----------------------------------------------------------------------------
(* Bounds *)

MaxLog == 2
MaxPage == 2
NumThreads == 2
MaxChanges == 4

----------------------------------------------------------------------------
(* Values *)

NoToken == 0
NoPath == <<"None">>
NoOid == "None"

\* the object ids the remote hands out, in the order it hands them out
OidSeq == <<"o1", "o2">>
Oids == {OidSeq[i] : i \in 1..Len(OidSeq)}
ROOT == "root"

\* the id of a folder this account has no access to
FOREIGN == "p1"
Names == {"a", "b"}

\* self.sep, the root path
Root == <<>>

RemovedFlags == {"true", "false", "absent"}
FilePayloads == {"absent", "folder", "other"}

----------------------------------------------------------------------------
(* Ordered dict: a sequence of <<key, value>> pairs with distinct keys *)

Keys(d) == {d[i][1] : i \in 1..Len(d)}

HasKey(d, k) == \E i \in 1..Len(d) : d[i][1] = k

Get(d, k) ==
    IF HasKey(d, k) THEN d[CHOOSE i \in 1..Len(d) : d[i][1] = k][2] ELSE NoOid

\* a variant that stores without looking for the key
PutAppend(d, k, v) == Append(d, <<k, v>>)

Put(d, k, v) ==
    IF HasKey(d, k)
    THEN [i \in 1..Len(d) |-> IF d[i][1] = k THEN <<k, v>> ELSE d[i]]
    ELSE Append(d, <<k, v>>)

Pop(d, k) == SelectSeq(d, LAMBDA e : e[1] # k)

----------------------------------------------------------------------------
(* Paths *)

IsPrefix(p, q) == Len(p) <= Len(q) /\ SubSeq(q, 1, Len(p)) = p

\* Provider.is_subpath(folder, target): truthy when target is folder or below it
is_subpath(folder, target) ==
    folder # NoPath /\ target # NoPath /\ IsPrefix(folder, target)

\* the relative part is_subpath returns (the separator alone when equal)
Relative(folder, target) == SubSeq(target, Len(folder) + 1, Len(target))

join(p, rel) == p \o rel

\* Provider.split(path): the parent path and the leaf name
dirname(p) == IF p = Root THEN Root ELSE SubSeq(p, 1, Len(p) - 1)

basename(p) == IF p = Root THEN "" ELSE p[Len(p)]

----------------------------------------------------------------------------
(* The remote: file records *)

\* a file resource: state is "unborn" (id not handed out yet), "live" or
\* "gone" (deleted for good)
NoFile == [state |-> "unborn", name |-> "", parents |-> <<>>, folder |-> FALSE,
           trashed |-> FALSE, shared |-> FALSE, pid |-> NoOid]

RootFile == [state |-> "live", name |-> "", parents |-> <<>>, folder |-> TRUE,
             trashed |-> FALSE, shared |-> FALSE, pid |-> NoOid]

\* files.get(fileId): the record, or a record that is not live (404)
FilesGet(F, oid) ==
    IF oid = ROOT THEN RootFile
    ELSE IF oid \in Oids THEN F[oid] ELSE NoFile

\* the order a listing comes in: oldest or newest id first
Orders == {"asc", "desc"}

Reverse(q) == [i \in 1..Len(q) |-> q[Len(q) + 1 - i]]

\* files.list(q): the ids in parent -- at the root also the items shared
\* with the account that have no parent -- with the name asked for ("" for
\* any name), trashed ones included
FilesList(F, parent, name, ord) ==
    SelectSeq(IF ord = "asc" THEN OidSeq ELSE Reverse(OidSeq),
              LAMBDA o :
                /\ F[o].state = "live"
                /\ \/ F[o].parents = <<parent>>
                   \/ (parent = ROOT /\ F[o].shared /\ F[o].parents = <<>>)
                /\ (name = "" \/ F[o].name = name))

----------------------------------------------------------------------------
(* The provider: cache and identity <-> path resolution.  The operators *)
(* take the provider's mutable fields as a record S = [ids, tr, rid, unc] *)
(* and return the fields after the call with the value returned.  S.unc   *)
(* records the path the call has passed to _uncache, if it has.           *)

R(s, v) == [s |-> s, v |-> v, err |-> ""]

\* the call raises err
Raise(s, err) == [s |-> s, v |-> NoOid, err |-> err]

NoInfo == [otype |-> "NOTKNOWN", oid |-> NoOid, path |-> NoPath, pids |-> <<>>,
           name |-> "", shared |-> FALSE]

GDriveInfo(otype, oid, path, pids, name, shared) ==
    [otype |-> otype, oid |-> oid, path |-> path, pids |-> pids,
     name |-> name, shared |-> shared]

OtypeOfFile(rec) == IF rec.folder THEN "DIRECTORY" ELSE "FILE"

\* a local variable of a method: v is bound in what follows, K
With(v, K(_)) == K(v)

\* lines 270-279: the _root_id property
root_id_(S) ==
    IF S.rid = NoOid
    THEN R([S EXCEPT !.rid = ROOT, !.ids = Put(S.ids, Root, ROOT)], ROOT)
    ELSE R(S, S.rid)

\* lines 777-781
cached_id(S, path) ==
    IF path = Root THEN root_id_(S) ELSE R(S, Get(S.ids, path))

\* a variant that writes the sidecar for the root as for any other parent
prep_app_properties_always(S, parent_oid) ==
    With(root_id_(S), LAMBDA r : R(r.s, parent_oid))

\* lines 905-910
prep_app_properties(S, parent_oid) ==
    IF parent_oid = NoOid THEN R(S, NoOid)
    ELSE With(root_id_(S), LAMBDA r :
           R(r.s, IF parent_oid = r.v THEN NoOid ELSE parent_oid))

\* a variant that ignores the sidecar property
resolve_missing_parent_root(S, rec) ==
    With(root_id_(S), LAMBDA r : R(r.s, <<r.v>>))

\* lines 912-920
resolve_missing_parent(S, rec) ==
    IF rec.pid # NoOid THEN R(S, <<rec.pid>>)
    ELSE With(root_id_(S), LAMBDA r : R(r.s, <<r.v>>))

\* lines 870-872: the parents of a file resource, resolved when it has none
\* and is shared
ParentsOf(S, rec) ==
    IF rec.parents = <<>> /\ rec.shared
    THEN resolve_missing_parent(S, rec)
    ELSE R(S, rec.parents)

\* a variant that does not look at the trashed flag
info_oid_with_trashed(S, F, oid) ==
    With(FilesGet(F, oid), LAMBDA rec :
      IF rec.state # "live" THEN R(S, NoInfo)
      ELSE With(ParentsOf(S, rec), LAMBDA pr :
             R(pr.s, GDriveInfo(OtypeOfFile(rec), oid, NoPath, pr.v,
                                rec.name, rec.shared))))

\* lines 849-886: _info_oid
info_oid_(S, F, oid) ==
    With(FilesGet(F, oid), LAMBDA rec :
      IF rec.state # "live" THEN R(S, NoInfo)
      ELSE IF rec.trashed THEN R(S, NoInfo)
      ELSE With(ParentsOf(S, rec), LAMBDA pr :
             R(pr.s, GDriveInfo(OtypeOfFile(rec), oid, NoPath, pr.v,
                                rec.name, rec.shared))))

\* the first key of d that maps to oid
FirstPathOf(d, oid) ==
    d[CHOOSE i \in 1..Len(d) :
        /\ d[i][2] = oid
        /\ \A j \in 1..(i - 1) : d[j][2] # oid][1]

\* the last key of d that maps to oid
LastPathOf(d, oid) ==
    d[CHOOSE i \in 1..Len(d) :
        /\ d[i][2] = oid
        /\ \A j \in (i + 1)..Len(d) : d[j][2] # oid][1]

HasOid(d, oid) == \E i \in 1..Len(d) : d[i][2] = oid

RECURSIVE path_oid(_, _, _, _, _)
\* a variant that does not remember the path it has resolved
path_oid_forgetful(S, F, oid, info, use_cache) ==
    IF use_cache /\ HasOid(S.ids, oid) THEN R(S, FirstPathOf(S.ids, oid))
    ELSE IF use_cache /\ HasOid(S.tr, oid) THEN R(S, FirstPathOf(S.tr, oid))
    ELSE
    With(root_id_(S), LAMBDA r :
      IF oid = r.v THEN R(r.s, Root)
      ELSE
      With(IF info = NoInfo THEN info_oid_(r.s, F, oid) ELSE R(r.s, info),
           LAMBDA ir :
        IF ir.v # NoInfo /\ ir.v.pids # <<>> /\ ir.v.name # ""
        THEN With(path_oid(ir.s, F, ir.v.pids[1], NoInfo, TRUE), LAMBDA pp :
               IF pp.v # NoPath
               THEN R(pp.s, join(pp.v, <<ir.v.name>>))
               ELSE R(pp.s, NoPath))
        ELSE R(ir.s, NoPath)))

\* lines 805-830: _path_oid
path_oid(S, F, oid, info, use_cache) ==
    IF use_cache /\ HasOid(S.ids, oid) THEN R(S, FirstPathOf(S.ids, oid))
    ELSE IF use_cache /\ HasOid(S.tr, oid) THEN R(S, FirstPathOf(S.tr, oid))
    ELSE
    With(root_id_(S), LAMBDA r :
      IF oid = r.v THEN R(r.s, Root)
      ELSE
      With(IF info = NoInfo THEN info_oid_(r.s, F, oid) ELSE R(r.s, info),
           LAMBDA ir :
        IF ir.v # NoInfo /\ ir.v.pids # <<>> /\ ir.v.name # ""
        THEN With(path_oid(ir.s, F, ir.v.pids[1], NoInfo, TRUE), LAMBDA pp :
               IF pp.v # NoPath
               THEN With(join(pp.v, <<ir.v.name>>), LAMBDA path :
                      R([pp.s EXCEPT !.ids = Put(pp.s.ids, path, oid)], path))
               ELSE R(pp.s, NoPath))
        ELSE R(ir.s, NoPath)))

\* lines 832-838: info_oid
info_oid(S, F, oid, use_cache) ==
    With(info_oid_(S, F, oid), LAMBDA ir :
      IF ir.v = NoInfo THEN ir
      ELSE With(path_oid(ir.s, F, oid, ir.v, use_cache), LAMBDA pr :
             R(pr.s, [ir.v EXCEPT !.path = pr.v])))

RECURSIVE PutAll(_, _)
\* lines 691-693: every entry of es is stored in d, in order
PutAll(d, es) ==
    IF es = <<>> THEN d
    ELSE PutAll(Put(d, es[1][1], es[1][2]), Tail(es))

\* lines 686-695: _uncache
uncache(S, path) ==
    With(cached_id(S, path), LAMBDA c :
      IF c.v = NoOid THEN [c.s EXCEPT !.unc = path]
      ELSE [c.s EXCEPT
              !.ids = SelectSeq(c.s.ids, LAMBDA e :
                          e[2] # c.v /\ ~is_subpath(path, e[1])),
              !.tr = PutAll(c.s.tr, SelectSeq(c.s.ids, LAMBDA e : e[2] = c.v)),
              !.unc = path])

RECURSIVE info_path(_, _, _, _, _)
RECURSIVE get_parent_id(_, _, _, _, _)

\* lines 783-803: _get_parent_id
get_parent_id(S, F, path, use_cache, ord) ==
    With(dirname(path), LAMBDA parent :
      IF parent = path THEN cached_id(S, parent)
      ELSE
      With(cached_id(S, parent), LAMBDA c :
        IF use_cache /\ c.v # NoOid THEN c
        ELSE With(info_path(c.s, F, parent, TRUE, ord), LAMBDA ip :
               IF ip.v = NoInfo
               THEN Raise(ip.s, "CloudFileNotFoundError")
               ELSE cached_id(ip.s, ip.v.path))))

\* lines 700-770: info_path
info_path(S, F, path, use_cache, ord) ==
    IF path = Root
    THEN With(root_id_(S), LAMBDA r :
           info_oid([r.s EXCEPT !.ids = Put(r.s.ids, Root, r.v)], F, r.v, TRUE))
    ELSE
    With(get_parent_id(S, F, path, FALSE, ord), LAMBDA g :
      IF g.err # "" THEN R(g.s, NoInfo)
      ELSE
      With(root_id_(g.s), LAMBDA rr :
      With(FilesList(F, g.v, basename(path), ord), LAMBDA res :
        IF res = <<>>
        THEN IF use_cache
             THEN With(cached_id(rr.s, path), LAMBDA c :
                    IF c.v # NoOid
                    THEN With(info_oid(c.s, F, c.v, TRUE), LAMBDA alt_info :
                           IF alt_info.v # NoInfo /\ alt_info.v.path = path
                           THEN alt_info
                           ELSE R(alt_info.s, NoInfo))
                    ELSE R(uncache(c.s, path), NoInfo))
             ELSE R(rr.s, NoInfo)
        ELSE
        With(F[res[1]], LAMBDA ent :
          IF ent.trashed THEN R(rr.s, NoInfo)
          ELSE With(join(dirname(path), <<ent.name>>), LAMBDA cpath :
                 R([rr.s EXCEPT !.ids = Put(rr.s.ids, cpath, res[1])],
                   GDriveInfo(OtypeOfFile(ent), res[1], cpath, ent.parents,
                              ent.name, ent.shared)))))))

\* lines 772-775: exists_path
exists_path(S, F, path, ord) ==
    With(cached_id(S, path), LAMBDA c :
      IF c.v # NoOid THEN R(c.s, TRUE)
      ELSE With(info_path(c.s, F, path, TRUE, ord), LAMBDA ip :
             R(ip.s, ip.v # NoInfo)))

\* lines 607-628: the info listdir yields for the listed file fid
ListedInfo(S, F, fid) ==
    With(F[fid], LAMBDA ent :
      GDriveInfo(OtypeOfFile(ent), fid, NoPath, ParentsOf(S, ent).v, ent.name,
                 ent.shared))

\* lines 573-628: listdir, consumed to its end: the infos it yields
listdir(S, F, oid, ord) ==
    With(root_id_(S), LAMBDA r :
    With(FilesList(F, oid, "", ord), LAMBDA res :
      IF res = <<>>
      THEN With(info_oid_(r.s, F, oid), LAMBDA e :
             IF e.v # NoInfo THEN R(e.s, <<>>)
             ELSE Raise(e.s, "CloudFileNotFoundError"))
      ELSE With(SelectSeq(res, LAMBDA fid : fid # oid /\ ~F[fid].trashed),
                LAMBDA yielded :
             R(r.s, [i \in 1..Len(yielded) |->
                        ListedInfo(r.s, F, yielded[i])]))))

\* a path as the string the provider holds: the separator before every
\* name, the separator alone for the root, str(None) for None
PathStr(p) ==
    IF p = NoPath THEN <<"None">>
    ELSE IF p = Root THEN <<"/">>
    ELSE [i \in 1..(2 * Len(p)) |-> IF i % 2 = 1 THEN "/" ELSE p[i \div 2]]

\* an object id as a string: it holds no separator
OidStr(oid) == <<oid>>

RECURSIVE RStrip(_)
\* str.rstrip(sep)
RStrip(s) ==
    IF s # <<>> /\ s[Len(s)] = "/" THEN RStrip(SubSeq(s, 1, Len(s) - 1)) ELSE s

\* Provider.is_subpath(folder, target) on the strings it is handed
is_subpath_str(folder, target) ==
    With(RStrip(folder), LAMBDA f :
    With(RStrip(target), LAMBDA t :
        \/ f = t
        \/ (/\ Len(t) > Len(f)
            /\ t[Len(f) + 1] = "/"
            /\ SubSeq(t, 1, Len(f)) = f)))

RECURSIVE ClearScoped(_, _, _, _)
\* lines 896-902: one loop of the scoped _clear_cache over the entries es
\* of a cache.  The loop binds the key (a path) to coid and the value (an
\* id) to cpath; on a match it pops cpath from the live cache r.d, a
\* KeyError when r.d has no such key.
ClearScoped(r, es, oid, path) ==
    IF es = <<>> \/ r.err # "" THEN r
    ELSE
    With(PathStr(es[1][1]), LAMBDA coid :
    With(OidStr(es[1][2]), LAMBDA cpath :
        IF \/ (oid # NoOid /\ coid = OidStr(oid))
           \/ is_subpath_str(PathStr(path), cpath)
        THEN IF \E i \in 1..Len(r.d) : PathStr(r.d[i][1]) = cpath
             THEN ClearScoped([r EXCEPT !.d = SelectSeq(r.d, LAMBDA e :
                                                  PathStr(e[1]) # cpath)],
                              Tail(es), oid, path)
             ELSE [r EXCEPT !.err = "KeyError"]
        ELSE ClearScoped(r, Tail(es), oid, path)))

\* lines 892-903: _clear_cache(oid, path)
clear_cache(S, oid, path) ==
    IF oid = NoOid /\ (path = NoPath \/ path = Root)
    THEN R([S EXCEPT !.ids = <<>>, !.tr = <<>>], TRUE)
    ELSE
    With(ClearScoped([d |-> S.ids, err |-> ""], S.ids, oid, path), LAMBDA r1 :
    With(ClearScoped(r1, S.tr, oid, path), LAMBDA r2 :
        IF r2.err # ""
        THEN Raise([S EXCEPT !.ids = r2.d], r2.err)
        ELSE R([S EXCEPT !.ids = r2.d], TRUE)))

----------------------------------------------------------------------------
(* The remote: mutations *)

\* the change record the feed gets for a mutation of oid
ChangeOf(oid, removed, rec) ==
    [fileId |-> oid, removed |-> removed,
     file |-> IF removed = "true" THEN "absent"
              ELSE IF rec.folder THEN "folder" ELSE "other"]

HasFreeOid(F) == \E o \in Oids : F[o].state = "unborn"

NextOid(F) ==
    OidSeq[CHOOSE i \in 1..Len(OidSeq) :
             /\ F[OidSeq[i]].state = "unborn"
             /\ \A j \in 1..(i - 1) : F[OidSeq[j]].state # "unborn"]

RECURSIVE Under(_, _, _)
\* o is a, or a is an ancestor of o along the parent ids
Under(F, o, a) ==
    IF o = a THEN TRUE
    ELSE LET rec == FilesGet(F, o)
         IN IF rec.state # "live" \/ rec.parents = <<>> THEN FALSE
            ELSE Under(F, rec.parents[1], a)

\* files.create / files.update with a parent: 404 for a parent that does
\* not exist, 403 parentNotAFolder for a parent that is a file
ParentError(F, parent) ==
    LET rec == FilesGet(F, parent)
    IN IF rec.state # "live" THEN "CloudFileNotFoundError"
       ELSE IF ~rec.folder THEN "CloudFileExistsError"
       ELSE ""

\* files.create(body)
FilesCreate(F, oid, name, parent, folder, pid) ==
    [F EXCEPT ![oid] = [state |-> "live", name |-> name, parents |-> <<parent>>,
                        folder |-> folder, trashed |-> FALSE, shared |-> FALSE,
                        pid |-> pid]]

\* files.delete(fileId): the object and all below it are gone
FilesDelete(F, oid) ==
    [o \in Oids |-> IF F[o].state = "live" /\ Under(F, o, oid)
                    THEN [NoFile EXCEPT !.state = "gone"]
                    ELSE F[o]]

\* the change records of a delete: the object, then what was below it
DeleteChanges(F, oid) ==
    LET below == SelectSeq(OidSeq, LAMBDA o : /\ o # oid
                                              /\ F[o].state = "live"
                                              /\ Under(F, o, oid))
    IN <<ChangeOf(oid, "true", F[oid])>>
       \o [i \in 1..Len(below) |-> ChangeOf(below[i], "true", F[below[i]])]

\* files.update(fileId, body, addParents, removeParents): the name is set,
\* the parents are replaced unless both lists are empty, a non-empty
\* appProperties entry is merged in
FilesUpdate(F, oid, name, add_pids, remove_pids, pid) ==
    [F EXCEPT ![oid].name = name,
              ![oid].parents = IF add_pids = remove_pids THEN @ ELSE add_pids,
              ![oid].pid = IF pid # NoOid THEN pid ELSE @]

----------------------------------------------------------------------------
(* The provider: operations.  Each returns the provider fields, the remote *)
(* files and feed after the call, the value returned and the error raised. *)

Out(s, F, log, v, err) == [s |-> s, F |-> F, log |-> log, v |-> v, err |-> err]

\* a variant that creates the object and does not cache its path
CreatedUncached(S, F, log, path, parent_oid, folder) ==
    With(prep_app_properties(S, parent_oid), LAMBDA ap :
      IF ParentError(F, parent_oid) # ""
      THEN Out(ap.s, F, log, NoOid, ParentError(F, parent_oid))
      ELSE
      With(NextOid(F), LAMBDA fileid :
      With(FilesCreate(F, fileid, basename(path), parent_oid, folder, ap.v),
           LAMBDA F2 :
        Out(ap.s, F2,
            Append(log, ChangeOf(fileid, "false", F2[fileid])), fileid, ""))))

\* lines 642-655: the folder or file is created under parent_oid and cached
Created(S, F, log, path, parent_oid, folder) ==
    With(prep_app_properties(S, parent_oid), LAMBDA ap :
      IF ParentError(F, parent_oid) # ""
      THEN Out(ap.s, F, log, NoOid, ParentError(F, parent_oid))
      ELSE
      With(NextOid(F), LAMBDA fileid :
      With(FilesCreate(F, fileid, basename(path), parent_oid, folder, ap.v),
           LAMBDA F2 :
        Out([ap.s EXCEPT !.ids = Put(ap.s.ids, path, fileid)], F2,
            Append(log, ChangeOf(fileid, "false", F2[fileid])), fileid, ""))))

\* lines 630-655: mkdir
mkdir(S, F, log, path, ord) ==
    With(info_path(S, F, path, TRUE, ord), LAMBDA info :
      IF info.v # NoInfo
      THEN IF info.v.otype = "FILE"
           THEN Out(info.s, F, log, NoOid, "CloudFileExistsError")
           ELSE Out(info.s, F, log, info.v.oid, "")
      ELSE
      With(get_parent_id(info.s, F, path, TRUE, ord), LAMBDA g :
        IF g.err # "" THEN Out(g.s, F, log, NoOid, g.err)
        ELSE Created(g.s, F, log, path, g.v, TRUE)))

\* lines 448-497: create
create(S, F, log, path, ord) ==
    With(exists_path(S, F, path, ord), LAMBDA e :
      IF e.v THEN Out(e.s, F, log, NoOid, "CloudFileExistsError")
      ELSE
      With(get_parent_id(e.s, F, path, TRUE, ord), LAMBDA g :
        IF g.err # "" THEN Out(g.s, F, log, NoOid, g.err)
        ELSE Created(g.s, F, log, path, g.v, FALSE)))

\* lines 670-684: files.delete against the remote as it is by then, a
\* not-found answer swallowed (line 672), and the path of oid uncached
DeleteRemote(S, F1, log1, oid, info) ==
    With(FilesGet(F1, oid).state = "live", LAMBDA found :
    With(IF found THEN FilesDelete(F1, oid) ELSE F1, LAMBDA F2 :
    With(path_oid(S, F2, oid, info, TRUE), LAMBDA path :
        Out(uncache(path.s, path.v), F2,
            IF found THEN log1 \o DeleteChanges(F1, oid) ELSE log1,
            NoOid, ""))))

\* a variant that does not list a folder before it deletes it
delete_at_unlisted(S, F, log, oid, ord, F1, log1) ==
    With(info_oid_(S, F, oid), LAMBDA info :
      IF info.v = NoInfo THEN Out(info.s, F, log, NoOid, "")
      ELSE
      With(root_id_(info.s), LAMBDA r :
        IF oid = r.v THEN Out(r.s, F, log, NoOid, "CloudFileExistsError")
        ELSE DeleteRemote(r.s, F1, log1, oid, info.v)))

\* lines 658-684: delete; F and log are the remote during the checks, F1
\* and log1 the remote when files.delete is called
delete_at(S, F, log, oid, ord, F1, log1) ==
    With(info_oid_(S, F, oid), LAMBDA info :
      IF info.v = NoInfo THEN Out(info.s, F, log, NoOid, "")
      ELSE
      With(IF info.v.otype = "DIRECTORY"
           THEN listdir(info.s, F, oid, ord)
           ELSE R(info.s, <<>>), LAMBDA l :
        IF l.err # "" THEN Out(l.s, F, log, NoOid, l.err)
        ELSE IF l.v # <<>> THEN Out(l.s, F, log, NoOid, "CloudFileExistsError")
        ELSE
        With(root_id_(l.s), LAMBDA r :
          IF oid = r.v THEN Out(r.s, F, log, NoOid, "CloudFileExistsError")
          ELSE DeleteRemote(r.s, F1, log1, oid, info.v))))

\* a variant that calls files.delete whatever the lookup by id reports
delete_always(S, F, log, oid, ord) ==
    With(info_oid_(S, F, oid), LAMBDA info :
        DeleteRemote(info.s, F, log, oid, info.v))

\* lines 658-684: delete, with no other client at work
delete(S, F, log, oid, ord) == delete_at(S, F, log, oid, ord, F, log)

\* lines 658-684: delete, another client deleting the object between the
\* checks and the call of files.delete
delete_raced(S, F, log, oid, ord) ==
    delete_at(S, F, log, oid, ord, FilesDelete(F, oid),
              log \o DeleteChanges(F, oid))

RECURSIVE RenameEntries(_, _, _, _)
\* lines 559-567: the loop over the entries es the cache had, d the cache
RenameEntries(d, es, old_path, path) ==
    IF es = <<>> THEN d
    ELSE RenameEntries(IF is_subpath(old_path, es[1][1])
                       THEN Put(Pop(d, es[1][1]),
                                join(path, Relative(old_path, es[1][1])),
                                es[1][2])
                       ELSE d,
                       Tail(es), old_path, path)

\* lines 559-567: the cache entries below old_path move below path
RenameCache(d, old_path, path) == RenameEntries(d, d, old_path, path)

\* lines 530-542: the object at the target path is in the way unless it is
\* an empty folder, which is deleted
Conflict(S, F, log, oid, otype, pc, ord) ==
    IF pc = NoInfo \/ pc.oid = oid THEN Out(S, F, log, NoOid, "")
    ELSE IF "FILE" \in {otype, pc.otype}
    THEN Out(S, F, log, NoOid, "CloudFileExistsError")
    ELSE With(listdir(S, F, pc.oid, ord), LAMBDA l :
           IF l.err # "" THEN Out(l.s, F, log, NoOid, l.err)
           ELSE IF l.v # <<>>
           THEN Out(l.s, F, log, NoOid, "CloudFileExistsError")
           ELSE delete(l.s, F, log, pc.oid, ord))

\* files.update(fileId, addParents, removeParents): what the remote answers
UpdateError(F, oid, add_pids, remove_pids) ==
    IF FilesGet(F, oid).state # "live" THEN "CloudFileNotFoundError"
    ELSE IF oid = ROOT \/ Under(F, add_pids[1], oid) THEN "HttpError"
    ELSE IF add_pids # remove_pids THEN ParentError(F, add_pids[1])
    ELSE ""

\* lines 544-571: the remote is updated, then the cache is rewritten
Renamed(c, oid, path, add_pids, remove_pids, pid, old_path) ==
    IF UpdateError(c.F, oid, add_pids, remove_pids) # ""
    THEN Out(c.s, c.F, c.log, NoOid,
             UpdateError(c.F, oid, add_pids, remove_pids))
    ELSE With(FilesUpdate(c.F, oid, basename(path), add_pids, remove_pids, pid),
              LAMBDA F2 :
           Out([c.s EXCEPT !.ids =
                   IF old_path # NoPath
                   THEN RenameCache(c.s.ids, old_path, path)
                   ELSE c.s.ids],
               F2, Append(c.log, ChangeOf(oid, "false", F2[oid])), oid, ""))

\* lines 509-571: rename
rename(S, F, log, oid, path, ord) ==
    With(info_path(S, F, path, TRUE, ord), LAMBDA possible_conflict :
    With(get_parent_id(possible_conflict.s, F, path, TRUE, ord), LAMBDA g :
      IF g.err # "" THEN Out(g.s, F, log, NoOid, g.err)
      ELSE
      With(info_oid_(g.s, F, oid), LAMBDA info :
        IF info.v = NoInfo
        THEN Out(info.s, F, log, NoOid, "CloudFileNotFoundError")
        ELSE
        With(prep_app_properties(info.s, g.v), LAMBDA ap :
        With(Conflict(ap.s, F, log, oid, info.v.otype, possible_conflict.v, ord),
             LAMBDA c :
          IF c.err # "" THEN c
          ELSE Renamed(c, oid, path, <<g.v>>, info.v.pids, ap.v,
                       IF HasOid(c.s.ids, oid)
                       THEN LastPathOf(c.s.ids, oid)
                       ELSE info.v.path))))))

----------------------------------------------------------------------------
(* events(): _convert_to_event *)

\* a variant that reports a non-removed record with a file payload as existing
ExistsOfPayload(change) ==
    IF change.removed = "true" THEN "False"
    ELSE IF change.file # "absent" THEN "True" ELSE "None"

ExistsOf(change) ==
    IF change.removed = "true" THEN "False" ELSE "None"

OtypeOf(change) ==
    IF change.file # "absent"
    THEN IF change.file = "folder" THEN "DIRECTORY" ELSE "FILE"
    ELSE "NOTKNOWN"

\* a variant that leaves the cache alone
ConvertCacheKeep(d, change) == d

\* the cache after the removals of _convert_to_event; path is always None there
ConvertCache(d, change) ==
    LET oid == change.fileId
        path == NoPath
        otype == OtypeOf(change)
        remove == {d[i][1] : i \in {j \in 1..Len(d) :
                      \/ (d[j][2] = oid /\ d[j][1] # path)
                      \/ (path # NoPath /\ otype = "DIRECTORY"
                            /\ is_subpath(path, d[j][1]))}}
        popped == SelectSeq(d, LAMBDA e : e[1] \notin remove)
    IN IF path # NoPath THEN Put(popped, path, oid) ELSE popped

convert_to_event(change, new_cursor) ==
    [otype |-> OtypeOf(change), oid |-> change.fileId, path |-> NoPath,
     hash |-> "None", exists |-> ExistsOf(change), new_cursor |-> new_cursor]


----------------------------------------------------------------------------
(* _api: the transport wrapper *)

Threads == 1..NumThreads
NoThread == 0

\* what _api is asked for: a request that is executed, files.get_media
\* (the request object is returned unexecuted), or a media chunk transfer
Resources == {"execute", "get_media", "media"}

HttpStatuses == {400, 401, 403, 404, 409, 413, 416, 429, 500}

HttpReasons == {"storageQuotaExceeded", "parentNotAFolder",
                "insufficientFilePermissions", "userRateLimitExceeded",
                "rateLimitExceeded", "dailyLimitExceeded", "other"}

\* what the transport does with a request
Outcomes ==
    {[kind |-> k, status |-> 0, reason |-> "other"] :
        k \in {"ok", "SSLError_WRONG_VERSION", "SSLError", "RefreshError",
               "TimeoutError", "HttpLib2Error", "ConnectionResetError"}}
    \cup {[kind |-> "HttpError", status |-> st, reason |-> "other"] :
            st \in HttpStatuses \ {403}}
    \cup {[kind |-> "HttpError", status |-> 403, reason |-> r] : r \in HttpReasons}

\* googleapiclient's _should_retry_response, as lines 253-258 describe it
should_retry_response(status, reason) ==
    \/ status >= 500
    \/ status = 429
    \/ (status = 403 /\ reason \in {"userRateLimitExceeded", "rateLimitExceeded"})

\* a variant that classifies by the status alone
ClassifyHttpByStatus(status, reason) ==
    IF status = 416 THEN "GDriveFileDoneError"
    ELSE IF status = 413 THEN "CloudOutOfSpaceError"
    ELSE IF status = 409 THEN "CloudFileExistsError"
    ELSE IF status = 404 THEN "CloudFileNotFoundError"
    ELSE IF status = 401 THEN "CloudTokenError"
    ELSE IF status = 403 THEN "PermissionError"
    ELSE IF status = 429 \/ status >= 500 THEN "CloudTemporaryError"
    ELSE "HttpError"

\* lines 217-263: what _api raises for an HttpError
ClassifyHttp(status, reason) ==
    IF status = 416 THEN "GDriveFileDoneError"
    ELSE IF status = 413 THEN "CloudOutOfSpaceError"
    ELSE IF status = 409 THEN "CloudFileExistsError"
    ELSE IF status = 404 THEN "CloudFileNotFoundError"
    ELSE IF status = 403 /\ reason = "storageQuotaExceeded" THEN "CloudOutOfSpaceError"
    ELSE IF status = 401 THEN "CloudTokenError"
    ELSE IF status = 403 /\ reason = "parentNotAFolder" THEN "CloudFileExistsError"
    ELSE IF status = 403 /\ reason = "insufficientFilePermissions" THEN "PermissionError"
    ELSE IF \/ (status = 403 /\ reason \in {"userRateLimitExceeded",
                                            "rateLimitExceeded",
                                            "dailyLimitExceeded"})
            \/ status = 429
         THEN "CloudTemporaryError"
    ELSE IF should_retry_response(status, reason) THEN "CloudTemporaryError"
    ELSE "HttpError"

\* a variant that reports a reset connection as a disconnect
ClassifyResetDisconnected(o) ==
    IF o.kind = "ok" THEN "ok" ELSE "CloudDisconnectedError"

\* lines 205-268: what _api returns or raises for a transport outcome
Classify(o) ==
    CASE o.kind = "ok" -> "ok"
      [] o.kind = "SSLError_WRONG_VERSION" -> "CloudTemporaryError"
      [] o.kind = "SSLError" -> "SSLError"
      [] o.kind = "RefreshError" -> "CloudTokenError"
      [] o.kind = "HttpError" -> ClassifyHttp(o.status, o.reason)
      [] o.kind \in {"TimeoutError", "HttpLib2Error"} -> "CloudDisconnectedError"
      [] o.kind = "ConnectionResetError" -> "CloudTemporaryError"

\* a variant whose handlers raise without calling self.disconnect()
DisconnectsNever(o) == FALSE

\* the handlers that call self.disconnect() before raising
Disconnects(o) ==
    \/ o.kind = "RefreshError"
    \/ (o.kind = "HttpError" /\ ClassifyHttp(o.status, o.reason) = "CloudTokenError")
    \/ o.kind \in {"TimeoutError", "HttpLib2Error"}

IdleThread == [pc |-> "idle", resource |-> "execute", result |-> "none"]

\* lines 189-190: a thread enters _api; disconnected, it raises at once
ApiCall(t) ==
    /\ thr[t].pc = "idle"
    /\ \E r \in Resources :
         thr' = [thr EXCEPT ![t] =
                   IF client
                   THEN [pc |-> "lock", resource |-> r, result |-> "none"]
                   ELSE [pc |-> "idle", resource |-> r,
                         result |-> "CloudDisconnectedError"]]
    /\ UNCHANGED <<changelog, ids, trashed_ids, cursor, gen, client, mutex, files, root_id, since, delivered>>

\* a variant that enters the critical section without waiting for the lock
ApiAcquireUnlocked(t) ==
    /\ thr[t].pc = "lock"
    /\ IF thr[t].resource # "media" /\ ~client
       THEN /\ thr' = [thr EXCEPT ![t].pc = "idle", ![t].result = "AttributeError"]
            /\ mutex' = mutex
       ELSE IF thr[t].resource = "get_media"
       THEN /\ thr' = [thr EXCEPT ![t].pc = "idle", ![t].result = "ok"]
            /\ mutex' = mutex
       ELSE /\ thr' = [thr EXCEPT ![t].pc = "transport"]
            /\ mutex' = t
    /\ UNCHANGED <<changelog, ids, trashed_ids, cursor, gen, client, files, root_id, since, delivered>>

\* lines 192-205: with self._mutex, up to the transport invocation.  A
\* request built from a client that another thread has cleared meanwhile
\* fails on the None client; files.get_media returns the request unexecuted.
ApiAcquire(t) ==
    /\ thr[t].pc = "lock"
    /\ mutex = NoThread
    /\ IF thr[t].resource # "media" /\ ~client
       THEN /\ thr' = [thr EXCEPT ![t].pc = "idle", ![t].result = "AttributeError"]
            /\ mutex' = mutex
       ELSE IF thr[t].resource = "get_media"
       THEN /\ thr' = [thr EXCEPT ![t].pc = "idle", ![t].result = "ok"]
            /\ mutex' = mutex
       ELSE /\ thr' = [thr EXCEPT ![t].pc = "transport"]
            /\ mutex' = t
    /\ UNCHANGED <<changelog, ids, trashed_ids, cursor, gen, client, files, root_id, since, delivered>>

\* a variant in which a handler that disconnects leaves with the lock held
ApiCompleteHolding(t) ==
    /\ thr[t].pc = "transport"
    /\ \E o \in Outcomes :
         /\ thr' = [thr EXCEPT ![t].pc = "idle", ![t].result = Classify(o)]
         /\ client' = IF Disconnects(o) THEN FALSE ELSE client
         /\ mutex' = IF Disconnects(o) THEN mutex ELSE NoThread
    /\ UNCHANGED <<changelog, ids, trashed_ids, cursor, gen, files, root_id, since, delivered>>

\* lines 205-268: the transport answers; the handler classifies, some
\* handlers disconnect, and the with block releases the lock
ApiComplete(t) ==
    /\ thr[t].pc = "transport"
    /\ \E o \in Outcomes :
         /\ thr' = [thr EXCEPT ![t].pc = "idle", ![t].result = Classify(o)]
         /\ client' = IF Disconnects(o) THEN FALSE ELSE client
    /\ mutex' = NoThread
    /\ UNCHANGED <<changelog, ids, trashed_ids, cursor, gen, files, root_id, since, delivered>>

\* connect_impl, lines 141-145: a client is built and get_quota goes through _api
Connect(t) ==
    /\ thr[t].pc = "idle"
    /\ ~client
    /\ client' = TRUE
    /\ thr' = [thr EXCEPT ![t] = [pc |-> "lock", resource |-> "execute",
                                  result |-> "none"]]
    /\ UNCHANGED <<changelog, ids, trashed_ids, cursor, gen, mutex, files, root_id, since, delivered>>

----------------------------------------------------------------------------
(* Remote change feed *)

ChangeRecords ==
    [fileId : {"o1"}, removed : RemovedFlags, file : FilePayloads]

\* changes.getStartPageToken: the position after the last change
StartPageToken(log) == Len(log) + 1

Min(a, b) == IF a < b THEN a ELSE b

\* changes.list(pageToken): the responses the remote may give.  A page holds
\* up to MaxPage of the records from pageToken on.  A page that is followed
\* by another carries nextPageToken and no newStartPageToken; the last page
\* carries newStartPageToken and no nextPageToken.
ChangesList(log, pageToken) ==
    LET remaining == Len(log) + 1 - pageToken
    IN { [changes |-> SubSeq(log, pageToken, pageToken + n - 1),
          newStartPageToken |-> t[1], nextPageToken |-> t[2]] :
           n \in 0..Min(MaxPage, remaining),
           t \in {<<StartPageToken(log), NoToken>>} \cup
                 {<<NoToken, k>> : k \in 1..(Len(log) + 1)} }

ValidPage(log, pageToken, resp) ==
    LET n == Len(resp.changes)
    IN /\ resp.nextPageToken # NoToken =>
            (n >= 1 /\ resp.nextPageToken = pageToken + n)
       /\ resp.nextPageToken = NoToken => pageToken + n = Len(log) + 1

----------------------------------------------------------------------------
(* events(): the generator *)

NoChange == [fileId |-> NoOid, removed |-> "absent", file |-> "absent"]

NoEvent == convert_to_event(NoChange, NoToken)

NoPage == [page_token |-> NoToken, new_cursor |-> NoToken,
           fetch_cursor |-> NoToken, n |-> 0]

NoGen == [pc |-> "none", page_token |-> NoToken, changes |-> <<>>,
          new_cursor |-> NoToken, next |-> NoToken, i |-> 0,
          change |-> NoChange, event |-> NoEvent,
          fetch_cursor |-> NoToken, prev |-> NoPage]

\* a variant that always asks the remote for its latest token
current_cursor_latest(cur, log) == StartPageToken(log)

\* current_cursor (getter): lazily the remote's latest token
current_cursor(cur, log) == IF cur = NoToken THEN StartPageToken(log) ELSE cur

\* a variant that stores the page's new cursor unguarded
CommitCursorUnguarded(cur, new_cursor, page_token) == new_cursor

\* lines 321-322: the cursor after a page's for loop has ended
CommitCursor(cur, new_cursor, page_token) ==
    IF new_cursor # NoToken /\ page_token # NoToken /\ new_cursor # page_token
    THEN new_cursor
    ELSE cur

\* lines 312-314: the frame once the response for g.page_token is in
Fetched(g, cur, resp) ==
    [g EXCEPT !.changes = resp.changes,
              !.new_cursor = resp.newStartPageToken,
              !.next = resp.nextPageToken,
              !.i = 0,
              !.fetch_cursor = cur]

\* a variant whose event carries the token the page was asked with
YieldNextPageToken(g) ==
    LET change == g.changes[g.i + 1]
    IN [g EXCEPT !.i = g.i + 1, !.pc = "yield", !.change = change,
                 !.event = convert_to_event(change, g.page_token)]

\* lines 315-319: convert the next change of the page and yield it
YieldNext(g) ==
    LET change == g.changes[g.i + 1]
    IN [g EXCEPT !.i = g.i + 1, !.pc = "yield", !.change = change,
                 !.event = convert_to_event(change, g.new_cursor)]

\* lines 321-323: the frame after the for loop, page_token moved on
PageDone(g) ==
    [g EXCEPT !.page_token = g.next,
              !.prev = [page_token |-> g.page_token, new_cursor |-> g.new_cursor,
                        fetch_cursor |-> g.fetch_cursor, n |-> Len(g.changes)]]

\* a variant that stores the new cursor as soon as the page is fetched
RunPageEarlyCommit(g, cur) ==
    IF g.changes # <<>>
    THEN /\ gen' = YieldNext(g)
         /\ cursor' = CommitCursor(cur, g.new_cursor, g.page_token)
         /\ ids' = ConvertCache(ids, g.changes[1])
    ELSE /\ gen' = [PageDone(g) EXCEPT !.pc = "done"]
         /\ cursor' = CommitCursor(cur, g.new_cursor, g.page_token)
         /\ ids' = ids

\* the generator runs from a fetched page to its next yield or to its end
RunPage(g, cur) ==
    IF g.changes # <<>>
    THEN /\ gen' = YieldNext(g)
         /\ cursor' = cur
         /\ ids' = ConvertCache(ids, g.changes[1])
    ELSE /\ gen' = [PageDone(g) EXCEPT !.pc = "done"]
         /\ cursor' = CommitCursor(cur, g.new_cursor, g.page_token)
         /\ ids' = ids

\* how often the consumer may be handed one record before the count stops
MaxDeliveries == 2

\* how often the record at feed position k has been yielded
Seen(d, k) == IF k \in DOMAIN d THEN d[k] ELSE 0

\* line 319: the record at feed position k is yielded to the consumer
Handed(d, k) ==
    [j \in DOMAIN d \cup {k} |->
        IF j = k THEN Min(Seen(d, k) + 1, MaxDeliveries) ELSE d[j]]

\* the consumer calls events(): a new generator, nothing has run yet
EventsCall ==
    /\ gen.pc \in {"none", "done"}
    /\ gen' = [NoGen EXCEPT !.pc = "new"]
    /\ UNCHANGED <<changelog, ids, trashed_ids, cursor, apiVars, delivered>>

\* the consumer drops a suspended generator
EventsAbandon ==
    /\ gen.pc \in {"new", "yield"}
    /\ gen' = NoGen
    /\ UNCHANGED <<changelog, ids, trashed_ids, cursor, apiVars, delivered>>

\* first next(): line 309, then the first page
EventsStart ==
    /\ gen.pc = "new"
    /\ LET cur == current_cursor(cursor, changelog)
           g == [gen EXCEPT !.page_token = cur]
       IN \E resp \in ChangesList(changelog, cur) :
            /\ ValidPage(changelog, cur, resp)
            /\ RunPage(Fetched(g, cur, resp), cur)
            /\ delivered' = IF resp.changes # <<>>
                            THEN Handed(delivered, cur)
                            ELSE delivered
    /\ UNCHANGED <<changelog, trashed_ids, apiVars>>

\* first next() with no cursor stored and a remote that reports no latest
\* token (lines 291-292 and 296-297): page_token is None, the while loop
\* of line 310 is not entered
EventsStartNoToken ==
    /\ gen.pc = "new"
    /\ cursor = NoToken
    /\ gen' = [gen EXCEPT !.pc = "done"]
    /\ UNCHANGED <<changelog, ids, trashed_ids, cursor, apiVars, delivered>>

\* next() inside a page
EventsYield ==
    /\ gen.pc = "yield"
    /\ gen.i < Len(gen.changes)
    /\ gen' = YieldNext(gen)
    /\ ids' = ConvertCache(ids, gen.changes[gen.i + 1])
    /\ delivered' = Handed(delivered, gen.page_token + gen.i)
    /\ UNCHANGED <<changelog, trashed_ids, cursor, apiVars>>

\* next() after the last event of a page that has a nextPageToken
EventsNextPage ==
    /\ gen.pc = "yield"
    /\ gen.i = Len(gen.changes)
    /\ gen.next # NoToken
    /\ LET cur == CommitCursor(cursor, gen.new_cursor, gen.page_token)
           g == PageDone(gen)
       IN \E resp \in ChangesList(changelog, g.page_token) :
            /\ ValidPage(changelog, g.page_token, resp)
            /\ RunPage(Fetched(g, cur, resp), cur)
            /\ delivered' = IF resp.changes # <<>>
                            THEN Handed(delivered, g.page_token)
                            ELSE delivered
    /\ UNCHANGED <<changelog, trashed_ids, apiVars>>

\* next() after the last event of the last page: StopIteration
EventsStop ==
    /\ gen.pc = "yield"
    /\ gen.i = Len(gen.changes)
    /\ gen.next = NoToken
    /\ gen' = [PageDone(gen) EXCEPT !.pc = "done"]
    /\ cursor' = CommitCursor(cursor, gen.new_cursor, gen.page_token)
    /\ UNCHANGED <<changelog, ids, trashed_ids, apiVars, delivered>>

\* the remote records a change
RemoteChange ==
    /\ Len(changelog) < MaxLog
    /\ \E rec \in ChangeRecords : changelog' = Append(changelog, rec)
    /\ UNCHANGED <<ids, trashed_ids, cursor, gen, apiVars, delivered>>

----------------------------------------------------------------------------
(* The provider and the remote together: one action per public operation, *)
(* run to its end against the remote, and the out-of-band remote changes. *)

\* the paths the operations are called with: the top-level names and one
\* name below each
LeafNames == {"b"}

Paths == {<<n>> : n \in Names} \cup {<<n, m>> : n \in Names, m \in LeafNames}

OidArgs == Oids \cup {ROOT}

RECURSIVE RemotePath(_, _)
\* where the remote has oid: the names from the root down, NoPath for an
\* object that is not live or not reachable from the root
RemotePath(F, oid) ==
    IF oid = ROOT THEN Root
    ELSE LET rec == FilesGet(F, oid)
         IN IF rec.state # "live" THEN NoPath
            ELSE IF rec.parents = <<>>
            THEN IF rec.shared THEN <<rec.name>> ELSE NoPath
            ELSE LET pp == RemotePath(F, rec.parents[1])
                 IN IF pp = NoPath THEN NoPath ELSE join(pp, <<rec.name>>)

\* the provider's fields on entry to an operation
Self == [ids |-> ids, tr |-> trashed_ids, rid |-> root_id, unc |-> NoPath]

\* the fields after the operation
Store(s) ==
    /\ ids' = s.ids
    /\ trashed_ids' = s.tr
    /\ root_id' = s.rid

\* an operation that writes to the remote
Mutation(out) ==
    /\ Len(out.log) <= MaxChanges
    /\ Store(out.s)
    /\ files' = out.F
    /\ changelog' = out.log
    /\ UNCHANGED <<cursor, gen, client, mutex, thr, since, delivered>>

\* an operation that only reads the remote
Query(r) ==
    /\ Store(r.s)
    /\ UNCHANGED <<changelog, files, cursor, gen, client, mutex, thr, since, delivered>>

Mkdir(path, ord) ==
    /\ HasFreeOid(files)
    /\ Mutation(mkdir(Self, files, changelog, path, ord))

Create(path, ord) ==
    /\ HasFreeOid(files)
    /\ Mutation(create(Self, files, changelog, path, ord))

Delete(oid, ord) ==
    /\ oid \in OidArgs
    /\ Mutation(delete(Self, files, changelog, oid, ord))

DeleteRaced(oid, ord) ==
    /\ oid \in Oids
    /\ files[oid].state = "live"
    /\ Mutation(delete_raced(Self, files, changelog, oid, ord))

Rename(oid, path, ord) ==
    /\ oid \in OidArgs
    /\ Mutation(rename(Self, files, changelog, oid, path, ord))

InfoPath(path, ord) ==
    /\ path \in Paths \cup {Root}
    /\ Query(info_path(Self, files, path, TRUE, ord))

InfoOid(oid) ==
    /\ oid \in OidArgs
    /\ Query(info_oid(Self, files, oid, TRUE))

ExistsPath(path, ord) ==
    /\ path \in Paths
    /\ Query(exists_path(Self, files, path, ord))

Listdir(oid, ord) ==
    /\ oid \in OidArgs
    /\ Query(listdir(Self, files, oid, ord))

\* lines 892-895: _clear_cache() with neither an oid nor a path
ClearCache ==
    /\ ids' = <<>>
    /\ trashed_ids' = <<>>
    /\ UNCHANGED <<changelog, files, root_id, cursor, gen, client, mutex, thr, since, delivered>>

RECURSIVE ConvertAll(_, _)
\* lines 315-319: the cache after every change of the page is converted
ConvertAll(d, changes) ==
    IF changes = <<>> THEN d
    ELSE ConvertAll(ConvertCache(d, changes[1]), Tail(changes))

\* lines 308-323: events() consumed to its end, the pending records in one
\* page that carries newStartPageToken
EventsDrain ==
    /\ ids' = ConvertAll(ids, SubSeq(changelog,
                                     current_cursor(cursor, changelog),
                                     Len(changelog)))
    /\ cursor' = CommitCursor(current_cursor(cursor, changelog),
                              StartPageToken(changelog),
                              current_cursor(cursor, changelog))
    /\ since' = IF since = NoToken
                THEN current_cursor(cursor, changelog)
                ELSE since
    /\ UNCHANGED <<changelog, files, trashed_ids, root_id, gen, client,
                   mutex, thr, delivered>>

\* another client moves an object to the trash: it and all below it read
\* trashed from then on
RemoteTrash(oid) ==
    LET hit == SelectSeq(OidSeq, LAMBDA o : /\ files[o].state = "live"
                                            /\ ~files[o].trashed
                                            /\ Under(files, o, oid))
        F2 == [o \in Oids |-> IF \E i \in 1..Len(hit) : hit[i] = o
                              THEN [files[o] EXCEPT !.trashed = TRUE]
                              ELSE files[o]]
    IN /\ files[oid].state = "live"
       /\ ~files[oid].trashed
       /\ Len(changelog) + Len(hit) <= MaxChanges
       /\ files' = F2
       /\ changelog' = changelog \o
                       [i \in 1..Len(hit) |-> ChangeOf(hit[i], "false", F2[hit[i]])]
       /\ UNCHANGED <<ids, trashed_ids, root_id, cursor, gen, client, mutex,
                      thr, since, delivered>>

\* another client renames or moves an object
RemoteMove(oid, parent, name) ==
    /\ files[oid].state = "live"
    /\ FilesGet(files, parent).state = "live"
    /\ FilesGet(files, parent).folder
    /\ ~Under(files, parent, oid)
    /\ <<parent>> # files[oid].parents \/ name # files[oid].name
    /\ Len(changelog) < MaxChanges
    /\ files' = [files EXCEPT ![oid].name = name, ![oid].parents = <<parent>>]
    /\ changelog' = Append(changelog, ChangeOf(oid, "false", files[oid]))
    /\ UNCHANGED <<ids, trashed_ids, root_id, cursor, gen, client, mutex,
                   thr, since, delivered>>

\* an object of another account is shared with this one: this account sees
\* it with no parents, with the sidecar property its owner's provider left
\* (the id of a folder of the owner's that this account cannot see)
RemoteShare(oid, pid) ==
    /\ files[oid].state = "live"
    /\ ~files[oid].shared
    /\ Len(changelog) < MaxChanges
    /\ files' = [files EXCEPT ![oid].shared = TRUE, ![oid].parents = <<>>,
                              ![oid].pid = pid]
    /\ changelog' = Append(changelog, ChangeOf(oid, "false", files[oid]))
    /\ UNCHANGED <<ids, trashed_ids, root_id, cursor, gen, client, mutex,
                   thr, since, delivered>>

\* the values the consumer hands to the current_cursor setter: None, a
\* token string the remote has issued, or a value that is not a string
CursorVals ==
    {[type |-> "NoneType", v |-> NoToken]}
    \cup {[type |-> ty, v |-> k] : ty \in {"str", "int"}, k \in 1..(MaxLog + 1)}

\* a variant that stores the value without looking at its type
set_current_cursor_unchecked(cur, log, val) ==
    [cursor |-> IF val.type = "NoneType" THEN StartPageToken(log) ELSE val.v,
     err |-> ""]

\* lines 300-306: the current_cursor setter
set_current_cursor(cur, log, val) ==
    With(IF val.type = "NoneType"
         THEN [type |-> "str", v |-> StartPageToken(log)]
         ELSE val, LAMBDA v2 :
        IF v2.type # "str" /\ v2.type # "NoneType"
        THEN [cursor |-> cur, err |-> "CloudCursorError"]
        ELSE [cursor |-> v2.v, err |-> ""])

\* the consumer sets current_cursor
SetCursor(val) ==
    /\ val \in CursorVals
    /\ val.type = "str" => val.v <= StartPageToken(changelog)
    /\ cursor' = set_current_cursor(cursor, changelog, val).cursor
    /\ UNCHANGED <<changelog, ids, trashed_ids, gen, apiVars, delivered>>

\* lines 294-298: the consumer reads current_cursor
GetCursor ==
    /\ cursor' = current_cursor(cursor, changelog)
    /\ UNCHANGED <<changelog, ids, trashed_ids, gen, apiVars, delivered>>

InitProvider ==
    /\ ids = <<>>
    /\ trashed_ids = <<>>
    /\ cursor = NoToken
    /\ gen = NoGen
    /\ mutex = NoThread
    /\ thr = [t \in Threads |-> IdleThread]
    /\ root_id = NoOid
    /\ since = NoToken
    /\ delivered = <<>>
    /\ files = [o \in Oids |-> NoFile]

InitEvents ==
    /\ InitProvider
    /\ changelog = <<>>
    /\ client = TRUE

NextEvents ==
    \/ RemoteChange
    \/ EventsCall
    \/ EventsAbandon
    \/ EventsStart
    \/ EventsYield
    \/ EventsNextPage
    \/ EventsStop

SpecEvents == InitEvents /\ [][NextEvents]_vars

\* the generator over a remote that may also report no latest token
NextFeed ==
    \/ NextEvents
    \/ EventsStartNoToken

SpecFeed == InitEvents /\ [][NextFeed]_vars

\* the cursor under the consumer's reads and writes
NextCursor ==
    \/ RemoteChange
    \/ \E val \in CursorVals : SetCursor(val)
    \/ GetCursor

SpecCursor == InitEvents /\ [][NextCursor]_vars

\* deletes, with other clients trashing and deleting
NextDelete ==
    \/ \E path \in Paths, ord \in Orders : Mkdir(path, ord)
    \/ \E path \in Paths, ord \in Orders : Create(path, ord)
    \/ \E oid \in OidArgs, ord \in Orders : Delete(oid, ord)
    \/ \E oid \in Oids, ord \in Orders : DeleteRaced(oid, ord)
    \/ \E oid \in Oids : RemoteTrash(oid)
    \/ EventsDrain

SpecDelete == InitEvents /\ [][NextDelete]_vars

\* renames among folders and files
NextRename ==
    \/ \E path \in Paths, ord \in Orders : Mkdir(path, ord)
    \/ \E path \in Paths, ord \in Orders : Create(path, ord)
    \/ \E oid \in OidArgs, path \in Paths, ord \in Orders :
          Rename(oid, path, ord)
    \/ EventsDrain

SpecRename == InitEvents /\ [][NextRename]_vars

InitApi ==
    /\ InitProvider
    /\ changelog = <<>>
    /\ client = TRUE

NextApi ==
    \E t \in Threads :
        \/ ApiCall(t)
        \/ ApiAcquire(t)
        \/ ApiComplete(t)
        \/ Connect(t)

SpecApi == InitApi /\ [][NextApi]_vars

\* _api under fair scheduling: a transport call ends (the client has a
\* timeout, lines 264-266), and a thread that waits for the lock gets it
\* if the lock is free again and again
SpecApiFair ==
    /\ SpecApi
    /\ \A t \in Threads : WF_vars(ApiComplete(t))
    /\ \A t \in Threads : SF_vars(ApiAcquire(t))

Init ==
    /\ InitProvider
    /\ changelog = <<>>
    /\ client = TRUE

\* the cache under the provider's own writes and the feed
NextCache ==
    \/ \E path \in Paths, ord \in Orders : Mkdir(path, ord)
    \/ \E oid \in OidArgs, ord \in Orders : Delete(oid, ord)
    \/ \E oid \in OidArgs, path \in Paths, ord \in Orders : Rename(oid, path, ord)
    \/ \E path \in Paths \cup {Root}, ord \in Orders : InfoPath(path, ord)
    \/ \E path \in Paths, ord \in Orders : ExistsPath(path, ord)
    \/ ClearCache
    \/ EventsDrain

SpecCache == Init /\ [][NextCache]_vars

\* the lookups over a remote that other clients trash, move and share in
NextLookup ==
    \/ \E path \in Paths, ord \in Orders : Mkdir(path, ord)
    \/ \E path \in Paths, ord \in Orders : Create(path, ord)
    \/ \E path \in Paths \cup {Root}, ord \in Orders : InfoPath(path, ord)
    \/ \E oid \in OidArgs : InfoOid(oid)
    \/ \E oid \in OidArgs, ord \in Orders : Listdir(oid, ord)
    \/ \E oid \in OidArgs, ord \in Orders : Delete(oid, ord)
    \/ EventsDrain
    \/ \E oid \in Oids : RemoteTrash(oid)
    \/ \E oid \in Oids, parent \in OidArgs, name \in Names :
         RemoteMove(oid, parent, name)
    \/ \E oid \in Oids, pid \in {NoOid, FOREIGN} : RemoteShare(oid, pid)

SpecLookup == Init /\ [][NextLookup]_vars



----------------------------------------------------------------------------
(* Claims about events() *)

\* the raw record behind the event the generator last yielded
YieldedRecord == changelog[gen.page_token + gen.i - 1]

\* C1: every event events() delivers has exists = False exactly when its raw
\* record has removed = true, and exists = None otherwise, whatever the file
\* payload of the record is; exists is never True.
C1_ExistsFlag ==
    gen.pc = "yield" =>
        /\ gen.event.oid = YieldedRecord.fileId
        /\ (gen.event.exists = "False") <=> (YieldedRecord.removed = "true")
        /\ YieldedRecord.removed # "true" => gen.event.exists = "None"
        /\ gen.event.exists # "True"

\* a non-removed record carrying a folder payload has been delivered
C1_Witness ==
    /\ gen.pc = "yield"
    /\ YieldedRecord.removed = "false"
    /\ YieldedRecord.file = "folder"
    /\ gen.event.exists = "None"

\* C2: while the generator is suspended inside a page (after any event of
\* the page, the last one included), the cursor still has the value it had
\* before that page was fetched.
C2_CursorHeldDuringPage ==
    gen.pc = "yield" => cursor = gen.fetch_cursor

\* the first of two events of a last page has been delivered, the page's
\* new cursor differs from the stored one
C2_Witness ==
    /\ gen.pc = "yield"
    /\ gen.i = 1
    /\ Len(gen.changes) = 2
    /\ gen.new_cursor # NoToken
    /\ gen.new_cursor # cursor

\* C3 as stated: once a page of N >= 1 events has been consumed and the
\* generator resumed, the cursor equals the new cursor that page reported,
\* for every page of the stream.
C3_CursorEqualsPageCursor ==
    (gen.prev.page_token # NoToken /\ gen.prev.n >= 1) =>
        cursor = gen.prev.new_cursor

\* C3 amended: once a page has been consumed and the generator resumed, the
\* cursor equals the page's newStartPageToken when the page carries one that
\* differs from the token it was fetched with; a page that carries none (a
\* page with a nextPageToken) leaves the cursor as it was before the fetch.
C3_CursorAfterPage ==
    gen.prev.page_token # NoToken =>
        cursor = IF /\ gen.prev.new_cursor # NoToken
                    /\ gen.prev.new_cursor # gen.prev.page_token
                 THEN gen.prev.new_cursor
                 ELSE gen.prev.fetch_cursor

\* a consumed page of two events has moved the cursor to its new cursor
C3_Witness ==
    /\ gen.prev.page_token # NoToken
    /\ gen.prev.n = 2
    /\ cursor = gen.prev.new_cursor
    /\ cursor # gen.prev.fetch_cursor


----------------------------------------------------------------------------
(* Claims about the cache *)

\* some object the remote has is at path
Occupied(F, path) == \E o \in Oids : RemotePath(F, o) = path

\* C4: after rename(oid, Q) succeeds for a directory that was at path P,
\* whatever the live cache held before the call, every live entry P/x has
\* become Q/x with the same id, the directory's own entry is under Q, and no
\* live key is P or has P as a prefix.
C4_RenameCascade ==
    \A oid \in Oids, Q \in Paths, ord \in Orders :
        LET P == RemotePath(files, oid)
            out == rename(Self, files, changelog, oid, Q, ord)
        IN (/\ files[oid].state = "live"
            /\ files[oid].folder
            /\ P # NoPath
            /\ P # Q
            /\ out.err = "")
           => /\ \A i \in 1..Len(ids) :
                    (IsPrefix(P, ids[i][1]) /\ ids[i][1] # P)
                    => Get(out.s.ids, join(Q, Relative(P, ids[i][1]))) = ids[i][2]
              /\ Get(out.s.ids, Q) = oid
              /\ \A k \in Keys(out.s.ids) : ~IsPrefix(P, k)

\* C7: in every reachable state no path is a key of both the live cache
\* and the trashed cache.
C7_CachesDisjoint == Keys(ids) \cap Keys(trashed_ids) = {}

\* C8: after delete or info_path has run _uncache on a path P, no live key
\* is P or a descendant of P, whether or not P had a live entry; and
\* _uncache moves the entries that map to P's id to the trashed cache.
C8_UncacheCascade ==
    /\ \A P \in Paths, ord \in Orders :
          LET r == info_path(Self, files, P, TRUE, ord)
          IN r.s.unc = P => \A k \in Keys(r.s.ids) : ~is_subpath(P, k)
    /\ \A oid \in Oids, ord \in Orders :
          LET out == delete(Self, files, changelog, oid, ord)
          IN out.s.unc # NoPath
             => \A k \in Keys(out.s.ids) : ~is_subpath(out.s.unc, k)
    /\ \A P \in Paths :
          LET oid == Get(ids, P)
              s2 == uncache(Self, P)
          IN oid # NoOid
             => \A i \in 1..Len(ids) :
                    ids[i][2] = oid => /\ Get(s2.tr, ids[i][1]) = oid
                                       /\ ~HasKey(s2.ids, ids[i][1])

\* C9: once events() has delivered every change record the remote has made,
\* exists_path and info_path report a path as present only if an object
\* occupies it on the remote.
C9_SafelyStale ==
    (since = 1 /\ cursor = StartPageToken(changelog))
    => \A P \in Paths, ord \in Orders :
          /\ exists_path(Self, files, P, ord).v => Occupied(files, P)
          /\ info_path(Self, files, P, TRUE, ord).v # NoInfo => Occupied(files, P)

----------------------------------------------------------------------------
(* Claims about the lookups *)

\* the ids listdir(oid) yields
Yielded(oid, ord) ==
    LET l == listdir(Self, files, oid, ord)
    IN IF l.err # "" THEN {} ELSE {l.v[i].oid : i \in 1..Len(l.v)}

Visible(o) == files[o].state = "live" /\ ~files[o].trashed

Trashed(o) == files[o].state = "live" /\ files[o].trashed

\* where listdir lists o: its parent, the root for a shared object with none
ListedIn(o) == IF files[o].parents = <<>> THEN ROOT ELSE files[o].parents[1]

\* info_oid and listdir skip a trashed object and return every other one
LookupsSkipTrashed ==
    /\ \A o \in Oids : Trashed(o) =>
          /\ info_oid(Self, files, o, TRUE).v = NoInfo
          /\ \A parent \in OidArgs, ord \in Orders : o \notin Yielded(parent, ord)
    /\ \A o \in Oids :
          (Visible(o) /\ (files[o].parents # <<>> \/ files[o].shared)) =>
          /\ info_oid(Self, files, o, TRUE).v # NoInfo
          /\ info_oid(Self, files, o, TRUE).v.oid = o
          /\ \A ord \in Orders : o \in Yielded(ListedIn(o), ord)

C5_SameNameWitness ==
    \E o, sib \in Oids, ord \in Orders :
        /\ Trashed(o)
        /\ Visible(sib)
        /\ RemotePath(files, o) \in Paths
        /\ RemotePath(files, sib) = RemotePath(files, o)
        /\ info_path(Self, files, RemotePath(files, o), TRUE, ord).v.oid = sib

SharedNoParents(o) == Visible(o) /\ files[o].shared /\ files[o].parents = <<>>

\* the one parent a shared record without parent ids is to get
SidecarParent(o) == IF files[o].pid # NoOid THEN <<files[o].pid>> ELSE <<ROOT>>

\* C6: for a shared record with no parent ids, the info from info_oid and
\* the info listdir yields have exactly one parent: the sidecar 'pid' when
\* it is set, the root id otherwise.
C6_SharedParent ==
    \A o \in Oids : SharedNoParents(o) =>
        /\ info_oid(Self, files, o, TRUE).v.pids = SidecarParent(o)
        /\ \A parent \in OidArgs, ord \in Orders :
              LET l == listdir(Self, files, parent, ord)
              IN l.err = "" => \A i \in 1..Len(l.v) :
                                  l.v[i].oid = o => l.v[i].pids = SidecarParent(o)

\* two shared records without parents, one with the sidecar property and
\* one without, both yielded by listdir of the root
C6_Witness ==
    \E o, u \in Oids :
        /\ SharedNoParents(o) /\ files[o].pid = FOREIGN
        /\ SharedNoParents(u) /\ files[u].pid = NoOid
        /\ root_id = ROOT
        /\ \A ord \in Orders : Yielded(ROOT, ord) = {o, u}
        /\ info_oid(Self, files, o, TRUE).v.pids = <<FOREIGN>>
        /\ info_oid(Self, files, u, TRUE).v.pids = <<ROOT>>

----------------------------------------------------------------------------
(* Claims about _api *)

InFlight == {t \in Threads : thr[t].pc = "transport"}

\* C10: with any number of threads in provider operations, at most one
\* transport invocation (request execution or media chunk transfer) is in
\* flight at any time, and it belongs to the thread holding the mutex.
C10_OneTransportInFlight ==
    /\ Cardinality(InFlight) <= 1
    /\ \A t \in InFlight : mutex = t

\* one thread's transport call is in flight while another thread waits
\* for the lock
C10_Witness ==
    \E t, u \in Threads :
        /\ t # u
        /\ thr[t].pc = "transport"
        /\ thr[u].pc = "lock"
        /\ thr[u].resource = "media"

\* C11: a transport call that fails as Unauthorized (401, refresh error) or
\* as Disconnected (timeout, transport-level error) leaves the provider
\* disconnected when the error is surfaced, and a call that enters _api
\* while the provider is disconnected fails at once with
\* CloudDisconnectedError, without reaching the lock or the transport.
C11_FailFast ==
    [][\A t \in Threads :
         /\ (/\ thr[t].pc = "transport"
             /\ thr'[t].pc = "idle"
             /\ thr'[t].result \in {"CloudTokenError", "CloudDisconnectedError"})
            => ~client'
         /\ (/\ thr[t].pc = "idle"
             /\ ~client
             /\ ~client'
             /\ thr'[t] # thr[t])
            => (/\ thr'[t].pc = "idle"
                /\ thr'[t].result = "CloudDisconnectedError")]_vars

\* one thread's call has failed as Unauthorized, and a call made after it
\* (files.get_media, which never reaches the transport) has failed with
\* CloudDisconnectedError
C11_Witness ==
    \E t, u \in Threads :
        /\ t # u
        /\ ~client
        /\ thr[u].pc = "idle"
        /\ thr[u].result = "CloudTokenError"
        /\ thr[t].pc = "idle"
        /\ thr[t].resource = "get_media"
        /\ thr[t].result = "CloudDisconnectedError"

----------------------------------------------------------------------------
(* Claims about repeated and composed lookups *)

C13_RoundTrip ==
    \A P \in Paths, ord \in Orders :
        With(info_path(Self, files, P, TRUE, ord), LAMBDA r1 :
            r1.v # NoInfo =>
                With(info_oid(r1.s, files, r1.v.oid, TRUE), LAMBDA r2 :
                    /\ r2.v # NoInfo
                    /\ r2.v.path = P))

----------------------------------------------------------------------------
(* Claims about the root id and the cache's own operations *)

\* C14: once the root id has been resolved, the live cache maps the root
\* path to the remembered root id in every reachable state, cache clears
\* and change events included.
C14_RootCached ==
    root_id # NoOid => Get(ids, Root) = root_id

\* what a clear of the scope (oid, path) is to leave of a cache d
OutsideScope(d, oid, path) ==
    SelectSeq(d, LAMBDA e : ~(e[2] = oid \/ is_subpath(path, e[1])))

\* C15: _clear_cache with no scope, or with the root path as its only
\* scope, empties the live and the trashed cache; with a scope it removes
\* from both caches exactly the entries whose id is the scope id or whose
\* path is under the scope path, and it completes without error.
C15_ClearCacheScope ==
    \A oid \in OidArgs \cup {NoOid}, path \in Paths \cup {Root, NoPath} :
        With(clear_cache(Self, oid, path), LAMBDA r :
            /\ r.err = ""
            /\ IF oid = NoOid /\ path \in {NoPath, Root}
               THEN r.s.ids = <<>> /\ r.s.tr = <<>>
               ELSE /\ r.s.ids = OutsideScope(ids, oid, path)
                    /\ r.s.tr = OutsideScope(trashed_ids, oid, path))

\* C16: the current_cursor setter stores the remote's latest token for
\* None and the string it is given for a string; for any other value it
\* raises CloudCursorError and the stored cursor is as it was.
C16_CursorSetter ==
    \A val \in CursorVals :
        With(set_current_cursor(cursor, changelog, val), LAMBDA r :
            /\ val.type = "NoneType" =>
                 (r.err = "" /\ r.cursor = StartPageToken(changelog))
            /\ val.type = "str" => (r.err = "" /\ r.cursor = val.v)
            /\ val.type \notin {"NoneType", "str"} =>
                 (r.err = "CloudCursorError" /\ r.cursor = cursor))

\* a cursor has been stored and the remote has moved on since, so the
\* stored cursor, the latest token and a rejected value all differ
C16_Witness ==
    /\ cursor # NoToken
    /\ cursor # StartPageToken(changelog)
    /\ \E val \in CursorVals :
        /\ val.type = "int"
        /\ val.v # cursor
        /\ set_current_cursor(cursor, changelog, val).err = "CloudCursorError"

----------------------------------------------------------------------------
(* Claims about delete and rename *)

\* C17: delete(oid) of an object that the lookup by id reports absent (not
\* found or trashed) returns without raising and leaves the remote as it
\* is; delete(oid) of an object that another client deletes before
\* files.delete is called returns without raising.
C17_DeleteAbsent ==
    \A oid \in OidArgs, ord \in Orders :
        /\ info_oid_(Self, files, oid).v = NoInfo =>
             With(delete(Self, files, changelog, oid, ord), LAMBDA out :
                 /\ out.err = ""
                 /\ out.F = files
                 /\ out.log = changelog)
        /\ (oid \in Oids /\ FilesGet(files, oid).state = "live") =>
             With(delete_raced(Self, files, changelog, oid, ord), LAMBDA out :
                 out.F # files => out.err = "")

\* one object is in the trash, so that its lookup by id reports nothing
\* and a files.delete would remove it, and another has been deleted
C17_Witness ==
    \E o, p \in Oids :
        /\ files[o].state = "live"
        /\ files[o].trashed
        /\ delete(Self, files, changelog, o, "asc").err = ""
        /\ files[p].state = "gone"

\* C18: rename(oid, Q) when info_path(Q) finds an object.  Over itself it
\* is no conflict and succeeds.  Over another object: if either is a file
\* or the target folder lists a child, CloudFileExistsError and the remote
\* is left as it is; if both are folders and the target lists nothing, the
\* target is deleted, then oid is updated, and the rename succeeds.
C18_RenameOver ==
    \A oid \in Oids, Q \in Paths, ord \in Orders :
        With(info_path(Self, files, Q, TRUE, ord).v, LAMBDA pc :
        With(info_oid_(Self, files, oid).v, LAMBDA info :
        With(rename(Self, files, changelog, oid, Q, ord), LAMBDA out :
            (pc # NoInfo /\ info # NoInfo) =>
                IF pc.oid = oid THEN out.err = ""
                ELSE IF \/ "FILE" \in {info.otype, pc.otype}
                        \/ listdir(Self, files, pc.oid, ord).v # <<>>
                THEN /\ out.err = "CloudFileExistsError"
                     /\ out.F = files
                     /\ out.log = changelog
                ELSE /\ out.err = ""
                     /\ out.F[pc.oid].state = "gone"
                     /\ out.log = (changelog \o DeleteChanges(files, pc.oid))
                                  \o <<ChangeOf(oid, "false", out.F[oid])>>)))

----------------------------------------------------------------------------
(* Claims about the cache maintenance of events() *)

\* the change records the feed may hold for the objects of the model
RecordsOf(oid) ==
    {[fileId |-> oid, removed |-> rm, file |-> f] :
        rm \in RemovedFlags, f \in FilePayloads}

\* path is, or is below, a path that d holds for oid
BelowCached(d, oid, path) ==
    \E j \in 1..Len(d) : d[j][2] = oid /\ is_subpath(d[j][1], path)

\* C19: after the change record of object X is converted to an event, no
\* live cache entry maps a path to X, and the entries of other ids whose
\* paths are not below a path cached for X are as they were.
C19_ConvertRemovesId ==
    \A X \in Oids : \A change \in RecordsOf(X) :
        With(ConvertCache(ids, change), LAMBDA d2 :
            /\ ~HasOid(d2, X)
            /\ SelectSeq(d2, LAMBDA e : ~BelowCached(ids, X, e[1]))
               = SelectSeq(ids, LAMBDA e :
                     e[2] # X /\ ~BelowCached(ids, X, e[1])))

\* events() has delivered a record of a live object: the cache holds no
\* entry for it and still holds the entry of another object
C19_Witness ==
    \E X, Y \in Oids :
        /\ X # Y
        /\ since # NoToken
        /\ cursor = StartPageToken(changelog)
        /\ \E i \in since..Len(changelog) : changelog[i].fileId = X
        /\ files[X].state = "live"
        /\ ~HasOid(ids, X)
        /\ HasOid(ids, Y)

\* C20: after the change record of a directory is converted to an event,
\* no live cache entry has a path below a path that the cache held for the
\* directory's id.
C20_ConvertRemovesDescendants ==
    \A X \in Oids : \A change \in RecordsOf(X) :
        change.file = "folder" =>
            With(ConvertCache(ids, change), LAMBDA d2 :
                \A i \in 1..Len(d2) : ~BelowCached(ids, X, d2[i][1]))

----------------------------------------------------------------------------
(* Claims about info_path's fallback to the cache *)

\* the remote lists nothing for the name of path in the parent that
\* info_path resolves for it
EmptyListing(path, ord) ==
    With(get_parent_id(Self, files, path, FALSE, ord), LAMBDA g :
        /\ g.err = ""
        /\ FilesList(files, g.v, basename(path), ord) = <<>>)

\* the live cache maps path to an object that is at path, not trashed
CachedAndThere(path) ==
    /\ HasKey(ids, path)
    /\ FilesGet(files, Get(ids, path)).state = "live"
    /\ ~FilesGet(files, Get(ids, path)).trashed
    /\ RemotePath(files, Get(ids, path)) = path

\* C21: when the remote lists nothing for P, info_path(P) returns the
\* cached info if the live cache maps P to an object that is still at P;
\* otherwise it returns nothing and afterwards the live cache has no entry
\* for P.
C21_EmptyListingFallback ==
    \A P \in Paths, ord \in Orders :
        EmptyListing(P, ord) =>
            With(info_path(Self, files, P, TRUE, ord), LAMBDA r :
                IF CachedAndThere(P)
                THEN r.v # NoInfo /\ r.v.oid = Get(ids, P)
                ELSE r.v = NoInfo /\ ~HasKey(r.s.ids, P))

----------------------------------------------------------------------------
(* Claims about the classification of transport failures *)

\* the transport outcome of a connection closed by the remote host
ResetOutcomes == {o \in Outcomes : o.kind = "ConnectionResetError"}

\* C22 as stated: a transport call in flight that ends with a connection
\* closed by the remote host is surfaced as CloudDisconnectedError and
\* disconnects the provider.
C22_ResetDisconnects ==
    \A t \in InFlight : \A o \in ResetOutcomes :
        /\ Classify(o) = "CloudDisconnectedError"
        /\ Disconnects(o)

\* C22 amended: a transport call in flight that ends with a connection
\* closed by the remote host is surfaced as CloudTemporaryError and leaves
\* the provider connected or not as it was.
C22_ResetIsTemporary ==
    \A t \in InFlight : \A o \in ResetOutcomes :
        /\ Classify(o) = "CloudTemporaryError"
        /\ (IF Disconnects(o) THEN FALSE ELSE client) = client

\* a call has ended with CloudTemporaryError, the provider is still
\* connected, and another call is in flight
C22_Witness ==
    \E t, u \in Threads :
        /\ thr[t].pc = "idle"
        /\ thr[t].result = "CloudTemporaryError"
        /\ client
        /\ u \in InFlight

HttpOutcomes == {o \in Outcomes : o.kind = "HttpError"}

RateLimitReasons ==
    {"userRateLimitExceeded", "rateLimitExceeded", "dailyLimitExceeded"}

\* the class the classification table gives a status and a reason
TableClass(status, reason) ==
    CASE status = 404 -> "CloudFileNotFoundError"
      [] status = 409 \/ (status = 403 /\ reason = "parentNotAFolder") ->
           "CloudFileExistsError"
      [] status = 413 \/ (status = 403 /\ reason = "storageQuotaExceeded") ->
           "CloudOutOfSpaceError"
      [] status = 401 -> "CloudTokenError"
      [] status = 403 /\ reason = "insufficientFilePermissions" ->
           "PermissionError"
      [] \/ status = 429
         \/ (status = 403 /\ reason \in RateLimitReasons)
         \/ status >= 500 -> "CloudTemporaryError"
      [] status = 416 -> "GDriveFileDoneError"
      [] OTHER -> "HttpError"

\* C23: a transport call in flight that ends with an HTTP failure is
\* surfaced as the class the table gives its status and reason, the
\* original error for what the table does not cover; except for 401 it
\* leaves the provider connected, and no end of a call touches the caches.
C23_HttpClassification ==
    /\ [](\A t \in InFlight : \A o \in HttpOutcomes :
            /\ Classify(o) = TableClass(o.status, o.reason)
            /\ o.status # 401 =>
                 (IF Disconnects(o) THEN FALSE ELSE client) = client)
    /\ [][\A t \in Threads :
            (thr[t].pc = "transport" /\ thr'[t].pc = "idle") =>
                (ids' = ids /\ trashed_ids' = trashed_ids)]_vars

\* a call has ended with the original HTTP error re-raised, the provider
\* is still connected, and another call is in flight
C23_Witness ==
    \E t, u \in Threads :
        /\ thr[t].pc = "idle"
        /\ thr[t].result = "HttpError"
        /\ client
        /\ u \in InFlight

\* ---------------------------------------------------------------------
\* Claims about the resolution of an id to a path
\* ---------------------------------------------------------------------

\* the paths d holds for oid
PathsOf(d, oid) == {d[i][1] : i \in {j \in 1..Len(d) : d[j][2] = oid}}

\* oid is in neither cache and is not the root
FullMiss(oid) ==
    /\ ~HasOid(ids, oid)
    /\ ~HasOid(trashed_ids, oid)
    /\ oid # ROOT

\* what _path_oid(oid) does from the current state, case by case
PathOidCases(oid) ==
    LET res == path_oid(Self, files, oid, NoInfo, TRUE)
        ir == info_oid_(root_id_(Self).s, files, oid)
    IN  /\ HasOid(ids, oid) =>
              /\ res.v \in PathsOf(ids, oid)
              /\ res.s.ids = ids
        /\ (~HasOid(ids, oid) /\ HasOid(trashed_ids, oid)) =>
              /\ res.v \in PathsOf(trashed_ids, oid)
              /\ res.s.ids = ids
        /\ (~HasOid(ids, oid) /\ ~HasOid(trashed_ids, oid) /\ oid = ROOT) =>
              res.v = Root
        /\ FullMiss(oid) =>
              IF ir.v = NoInfo \/ ir.v.pids = <<>> \/ ir.v.name = ""
              THEN res.v = NoPath /\ ~HasOid(res.s.ids, oid)
              ELSE LET pp == path_oid(ir.s, files, ir.v.pids[1], NoInfo, TRUE)
                   IN IF pp.v = NoPath
                      THEN res.v = NoPath /\ ~HasOid(res.s.ids, oid)
                      ELSE /\ res.v = join(pp.v, <<ir.v.name>>)
                           /\ HasKey(res.s.ids, res.v)
                           /\ Get(res.s.ids, res.v) = oid
        /\ res.s.tr = trashed_ids

\* C24: _path_oid answers from the live cache, else from the trashed
\* cache; the root resolves to the root path; on a full miss it returns
\* the primary parent's path joined with the name and stores it in the
\* live cache; for an object that is absent, has no parent or no name,
\* or whose primary parent does not resolve, it returns None and the live
\* cache gets no entry for the id.
C24_PathOid == \A oid \in OidArgs : PathOidCases(oid)

\* an object in neither cache whose path resolves through its parent,
\* and another in neither cache that does not resolve
C24_Witness ==
    \E oid, other \in Oids :
        /\ FullMiss(oid)
        /\ path_oid(Self, files, oid, NoInfo, TRUE).v \in Paths
        /\ FullMiss(other)
        /\ files[other].state = "live"
        /\ path_oid(Self, files, other, NoInfo, TRUE).v = NoPath

\* ---------------------------------------------------------------------
\* Claims about what a resolution leaves in the live cache
\* ---------------------------------------------------------------------

\* d maps path to oid
Maps(d, path, oid) == HasKey(d, path) /\ Get(d, path) = oid

\* create and mkdir leave the given path mapped to the id they return, and
\* info_path the path of the info it returns mapped to the id of the info
WritersCache ==
    \A path \in Paths, ord \in Orders :
        /\ HasFreeOid(files) =>
             With(mkdir(Self, files, changelog, path, ord), LAMBDA r :
                 r.err = "" => Maps(r.s.ids, path, r.v))
        /\ HasFreeOid(files) =>
             With(create(Self, files, changelog, path, ord), LAMBDA r :
                 r.err = "" => Maps(r.s.ids, path, r.v))
        /\ With(info_path(Self, files, path, TRUE, ord), LAMBDA r :
               r.v # NoInfo => Maps(r.s.ids, r.v.path, r.v.oid))

\* the infos listdir(oid) yields, none when it raises
ListedBy(oid, ord) ==
    With(listdir(Self, files, oid, ord), LAMBDA r :
        IF r.err = "" THEN {r.v[i] : i \in 1..Len(r.v)} ELSE {})

\* C25 as stated: after create, mkdir and info_path the live cache maps
\* the resolved path to the id, and after listdir it has an entry for
\* every child listdir has yielded.
C25_ResolvedCached ==
    /\ WritersCache
    /\ \A oid \in OidArgs, ord \in Orders : \A info \in ListedBy(oid, ord) :
           HasOid(listdir(Self, files, oid, ord).s.ids, info.oid)

\* C25 as the code has it: after create, mkdir and info_path the live
\* cache maps the resolved path to the id; listdir yields its children
\* with no path and leaves the entries of each child as they were.
C25_WritersCacheListdirNot ==
    /\ WritersCache
    /\ \A oid \in OidArgs, ord \in Orders : \A info \in ListedBy(oid, ord) :
           /\ info.path = NoPath
           /\ PathsOf(listdir(Self, files, oid, ord).s.ids, info.oid)
                = PathsOf(ids, info.oid)

\* a folder made by mkdir is cached under its path, and a listing of the
\* root yields a child that has no entry in the live cache
C25_Witness ==
    \E oid \in Oids, path \in Paths, ord \in Orders :
        /\ Maps(ids, path, oid)
        /\ files[oid].state = "live"
        /\ \E info \in ListedBy(ROOT, ord) : ~HasOid(ids, info.oid)

----------------------------------------------------------------------------
(* The cache under several threads *)

\* most entries the live cache holds under the threads
MaxCache == 2

\* the thread that consumes events()
EventsThread == 1

\* line 768: info_path, its listing returned by _api and the lock released,
\* stores the path it has found
InfoPathStore(t, path, oid) ==
    /\ thr[t].pc = "idle"
    /\ thr[t].resource = "execute"
    /\ thr[t].result = "ok"
    /\ HasKey(ids, path) \/ Len(ids) < MaxCache
    /\ ids' = Put(ids, path, oid)
    /\ thr' = [thr EXCEPT ![t].result = "none"]
    /\ UNCHANGED <<changelog, trashed_ids, cursor, gen, client, mutex, files,
                   root_id, since, delivered>>

\* lines 347-348: _convert_to_event, the page returned by _api and the lock
\* released, starts to iterate over the live cache for the change of oid
ConvertStart(t, oid) ==
    /\ t = EventsThread
    /\ thr[t].pc = "idle"
    /\ thr[t].resource = "execute"
    /\ thr[t].result = "ok"
    /\ thr' = [thr EXCEPT ![t] =
                 [pc |-> "scan", resource |-> thr[t].resource,
                  result |-> "none", oid |-> oid, it |-> 1,
                  used |-> Len(ids), remove |-> {}]]
    /\ UNCHANGED <<changelog, ids, trashed_ids, cursor, gen, client, mutex,
                   files, root_id, since, delivered>>

\* lines 348-357: one step of the iteration.  The iterator raises
\* RuntimeError when the dict has changed size since it was created; at
\* the end of the dict the collected paths are popped.
ConvertStep(t) ==
    /\ thr[t].pc = "scan"
    /\ IF Len(ids) # thr[t].used
       THEN /\ thr' = [thr EXCEPT ![t] =
                         [pc |-> "idle", resource |-> thr[t].resource,
                          result |-> "RuntimeError"]]
            /\ ids' = ids
       ELSE IF thr[t].it > Len(ids)
       THEN /\ thr' = [thr EXCEPT ![t] =
                         [pc |-> "idle", resource |-> thr[t].resource,
                          result |-> "none"]]
            /\ ids' = SelectSeq(ids, LAMBDA e : e[1] \notin thr[t].remove)
       ELSE /\ thr' = [thr EXCEPT
                         ![t].it = @ + 1,
                         ![t].remove =
                             IF ids[thr[t].it][2] = thr[t].oid
                             THEN @ \cup {ids[thr[t].it][1]}
                             ELSE @]
            /\ ids' = ids
    /\ UNCHANGED <<changelog, trashed_ids, cursor, gen, client, mutex, files,
                   root_id, since, delivered>>

\* events() in one thread and info_path in any, each through _api
NextThreads ==
    \E t \in Threads :
        \/ ApiCall(t)
        \/ ApiAcquire(t)
        \/ ApiComplete(t)
        \/ Connect(t)
        \/ \E path \in Paths, oid \in Oids : InfoPathStore(t, path, oid)
        \/ \E oid \in Oids : ConvertStart(t, oid)
        \/ ConvertStep(t)

SpecThreads == InitApi /\ [][NextThreads]_vars

\* ---------------------------------------------------------------------
\* Claims about the cache under several threads
\* ---------------------------------------------------------------------

Iterating == {t \in Threads : thr[t].pc = "scan"}

\* C26: the accesses to the path cache are serialized by the transport
\* lock: a thread that iterates over the live cache holds the lock, and
\* no step of a thread changes the cache while another thread is
\* iterating over it.
C26_CacheSerialized ==
    /\ [](\A t \in Iterating : mutex = t)
    /\ [][\A t \in Iterating :
            (ids' # ids \/ trashed_ids' # trashed_ids) => thr'[t] # thr[t]]_vars

\* ---------------------------------------------------------------------
\* Claims about the parents of shared objects
\* ---------------------------------------------------------------------

\* an info of a shared object carries a parent id
Parented(info) == (info # NoInfo /\ info.shared) => info.pids # <<>>

\* C27: every info that info_path, info_oid or listdir returns for a
\* shared object that is not trashed has at least one parent id.
C27_SharedHasParent ==
    /\ \A path \in Paths, ord \in Orders :
           Parented(info_path(Self, files, path, TRUE, ord).v)
    /\ \A oid \in OidArgs : Parented(info_oid(Self, files, oid, TRUE).v)
    /\ \A oid \in OidArgs, ord \in Orders :
           \A info \in ListedBy(oid, ord) : Parented(info)

\* ---------------------------------------------------------------------
\* Claims about a consumer that stops and starts again
\* ---------------------------------------------------------------------

\* the feed position of the record the suspended generator has yielded last
YieldedUpTo == gen.page_token + gen.i - 1

\* C28: a consumer that stops pulling from events(), mid-page or between
\* pages, loses no record.  A suspended sequence has yielded every record
\* from the committed cursor to its position; dropping it leaves the
\* cursor as it was; a new sequence starts from the committed cursor; and
\* the cursor moves only over records that have been yielded.
C28_NoRecordLost ==
    /\ [](gen.pc = "yield" =>
            \A k \in cursor..YieldedUpTo : Seen(delivered, k) >= 1)
    /\ [][/\ gen' = NoGen => cursor' = cursor
          /\ (gen.pc = "new" /\ gen'.pc = "yield" /\ cursor # NoToken) =>
                (gen'.page_token = cursor /\ gen'.i = 1)
          /\ \A k \in 1..Len(changelog) :
                (cursor # NoToken /\ cursor <= k /\ k < cursor') =>
                    Seen(delivered', k) >= 1]_vars

\* the consumer has dropped a sequence after its first record, and a new
\* sequence has run to its end: the first record has been yielded twice,
\* the second once, and the cursor is at the end of the feed
C28_Witness ==
    /\ gen.pc = "done"
    /\ Len(changelog) = 2
    /\ Seen(delivered, 1) = 2
    /\ Seen(delivered, 2) = 1
    /\ cursor = StartPageToken(changelog)

\* ---------------------------------------------------------------------
\* Claims about the sidecar parent id
\* ---------------------------------------------------------------------

\* a file resource whose appProperties are the sidecar pid
Carrying(pid) == [NoFile EXCEPT !.state = "live", !.shared = TRUE, !.pid = pid]

\* the resolver on a resource that carries what _prep_app_properties(p) gives
RoundTrip(p) ==
    With(prep_app_properties(Self, p), LAMBDA ap :
        resolve_missing_parent(ap.s, Carrying(ap.v)).v)

\* the object mkdir or create has just made carries a sidecar from which
\* the resolver gives the parent it was made under
MadeRoundTrips(r) ==
    (r.err = "" /\ files[r.v].state # "live") =>
        resolve_missing_parent(r.s, r.F[r.v]).v = r.F[r.v].parents

\* C29: for every parent id p, the resolver applied to a resource whose
\* appProperties are _prep_app_properties(p) gives [p]; the sidecar is
\* empty exactly when p is the root id or empty, and the resolver then
\* gives the root id; the resources that mkdir and create write round-trip.
C29_SidecarRoundTrip ==
    /\ \A p \in OidArgs \cup {FOREIGN} :
           /\ RoundTrip(p) = <<p>>
           /\ prep_app_properties(Self, p).v = NoOid <=> p = ROOT
    /\ prep_app_properties(Self, NoOid).v = NoOid
    /\ RoundTrip(NoOid) = <<ROOT>>
    /\ HasFreeOid(files) =>
          \A path \in Paths, ord \in Orders :
              /\ MadeRoundTrips(mkdir(Self, files, changelog, path, ord))
              /\ MadeRoundTrips(create(Self, files, changelog, path, ord))

\* one object made below a folder carries that folder's id as its sidecar,
\* and the folder, made at the root, carries none
C29_Witness ==
    \E o, f \in Oids :
        /\ files[o].state = "live"
        /\ files[f].state = "live"
        /\ files[o].parents = <<f>>
        /\ files[o].pid = f
        /\ files[f].parents = <<ROOT>>
        /\ files[f].pid = NoOid

\* ---------------------------------------------------------------------
\* Claims about the release of the transport lock
\* ---------------------------------------------------------------------

Waiting == {t \in Threads : thr[t].pc = "lock"}

\* C30: the transport lock is never left held.  It is held only by a
\* thread whose transport call is in flight, every end of a call releases
\* it, whatever the outcome and whether or not the handler disconnects,
\* and under fair scheduling every thread that waits for the lock gets
\* past the wait.
C30_LockReleased ==
    /\ [](mutex # NoThread => mutex \in InFlight)
    /\ [][\A t \in Threads :
            (thr[t].pc = "transport" /\ thr'[t].pc # "transport") =>
                mutex' = NoThread]_vars
    /\ \A t \in Threads : (t \in Waiting) ~> (t \notin Waiting)

\* a call has ended in a handler that disconnected, and another thread's
\* media transfer holds the lock after it
C30_Witness ==
    \E t, u \in Threads :
        /\ thr[t].pc = "idle"
        /\ thr[t].result \in {"CloudTokenError", "CloudDisconnectedError"}
        /\ ~client
        /\ thr[u].pc = "transport"
        /\ thr[u].resource = "media"
        /\ mutex = u

\* ---------------------------------------------------------------------
\* Claims about a sequence that is consumed to its end
\* ---------------------------------------------------------------------

\* the records of the feed the page of the generator holds
PageOfFeed ==
    SubSeq(changelog, gen.page_token, gen.page_token + Len(gen.changes) - 1)

\* C31: events() yields one event per change record, in feed order, each
\* event with the new cursor of its page.  The event in hand is the
\* conversion of the feed record at the generator's position; the first
\* yield is at the cursor, every next yield one position on, within a
\* page and from page to page; the sequence ends after the last record
\* of a page that has no nextPageToken; and with no cursor stored and no
\* latest token from the remote it ends with nothing yielded.
C31_OneEventPerRecord ==
    /\ [](gen.pc = "yield" =>
            /\ gen.changes = PageOfFeed
            /\ gen.i \in 1..Len(gen.changes)
            /\ gen.change = changelog[YieldedUpTo]
            /\ gen.event = [otype |-> OtypeOf(gen.change),
                            oid |-> gen.change.fileId,
                            path |-> NoPath, hash |-> "None",
                            exists |-> ExistsOf(gen.change),
                            new_cursor |-> gen.new_cursor])
    /\ [](gen.pc = "done" => gen.page_token = NoToken)
    /\ [][/\ (gen.pc = "new" /\ gen'.pc = "yield") =>
                /\ gen'.page_token + gen'.i - 1 =
                     IF cursor = NoToken THEN Len(changelog) + 1 ELSE cursor
                /\ Seen(delivered', gen'.page_token) =
                     Min(Seen(delivered, gen'.page_token) + 1, MaxDeliveries)
          /\ (gen.pc = "yield" /\ gen'.pc = "yield" /\ gen' # gen) =>
                /\ gen'.page_token + gen'.i - 1 = YieldedUpTo + 1
                /\ gen'.page_token # gen.page_token =>
                     (gen.i = Len(gen.changes) /\ gen'.page_token = gen.next)
          /\ (gen.pc = "yield" /\ gen'.pc = "done") =>
                gen.i = Len(gen.changes)
          /\ (gen.pc = "new" /\ gen'.pc = "done") =>
                /\ delivered' = delivered
                /\ cursor' = NoToken => (cursor = NoToken /\ gen'.changes = <<>>)]_vars

\* two records in two pages, each yielded once, the first with no new
\* cursor and the second with the cursor after the feed, and the sequence
\* has ended
C31_Witness ==
    /\ gen.pc = "done"
    /\ Len(changelog) = 2
    /\ Seen(delivered, 1) = 1
    /\ Seen(delivered, 2) = 1
    /\ gen.prev.page_token = 2
    /\ gen.prev.n = 1
    /\ gen.event.new_cursor = 3
    /\ cursor = 3

\* ---------------------------------------------------------------------
\* Claims about what delete refuses and what it leaves in the cache
\* ---------------------------------------------------------------------

\* delete(oid) is to refuse: the lookup by id finds a folder whose listing
\* yields a child, or finds the root
Refused(oid, ord) ==
    With(info_oid_(Self, files, oid).v, LAMBDA info :
        /\ info # NoInfo
        /\ \/ (info.otype = "DIRECTORY" /\ ListedBy(oid, ord) # {})
           \/ oid = ROOT)

\* delete(oid) is to delete: the lookup by id finds the object, and its
\* path resolves
Deletable(oid, ord) ==
    With(info_oid_(Self, files, oid).v, LAMBDA info :
        /\ info # NoInfo
        /\ path_oid(Self, files, oid, info, TRUE).v # NoPath)

\* C32: delete(oid) of a folder whose listing yields a child, and of the
\* root, raises CloudFileExistsError, calls no files.delete and leaves the
\* live and the trashed cache as they were; after a delete that succeeds
\* on an object whose path resolves, no live entry maps to the id.
C32_DeleteRefusals ==
    \A oid \in OidArgs, ord \in Orders :
        With(delete(Self, files, changelog, oid, ord), LAMBDA out :
            /\ Refused(oid, ord) =>
                 /\ out.err = "CloudFileExistsError"
                 /\ out.F = files
                 /\ out.log = changelog
                 /\ out.s.ids = ids
                 /\ out.s.tr = trashed_ids
            /\ (out.err = "" /\ Deletable(oid, ord)) =>
                 ~HasOid(out.s.ids, oid))

\* C32 as the code has it: the same, but a refusal by a provider that has
\* not resolved the root id yet resolves it, which stores the root entry
\* in the live cache; nothing else in the caches changes.
C32_DeleteRefusalsRootEntry ==
    \A oid \in OidArgs, ord \in Orders :
        With(delete(Self, files, changelog, oid, ord), LAMBDA out :
            /\ Refused(oid, ord) =>
                 /\ out.err = "CloudFileExistsError"
                 /\ out.F = files
                 /\ out.log = changelog
                 /\ out.s.ids = root_id_(Self).s.ids
                 /\ out.s.tr = trashed_ids
            /\ (out.err = "" /\ Deletable(oid, ord)) =>
                 ~HasOid(out.s.ids, oid))

\* a folder with a child, cached with its child, which delete refuses, and
\* the child, which delete removes from the remote and from the live cache
C32_Witness ==
    \E f, o \in Oids :
        /\ files[f].state = "live"
        /\ files[o].state = "live"
        /\ files[o].parents = <<f>>
        /\ HasOid(ids, f)
        /\ HasOid(ids, o)
        /\ Refused(f, "asc")
        /\ Deletable(o, "asc")
        /\ delete(Self, files, changelog, o, "asc").err = ""
        /\ delete(Self, files, changelog, o, "asc").F[o].state = "gone"

=============================================================================
